---- MODULE Spec2Model ----
(***************************************************************************)
(* usbguard, src/Library/DevicePrivate.cpp: the private implementation of  *)
(* a USB device record.  The module models the record's fields, the        *)
(* length-checked setters, the four descriptor handlers driven by a        *)
(* USBDescriptorParser, the device hash, the rule generator and the        *)
(* record's mutex.                                                         *)
(*                                                                         *)
(* Strings are sequences of characters; String::size() is Len.             *)
(***************************************************************************)
EXTENDS Integers, Sequences, FiniteSets, TLC

VARIABLES
    rec,          \* the DevicePrivate object: its data members
    origin,       \* which constructor built rec, and whether it read ports[0] of an empty vector
    have,         \* the USBDescriptorParser's descriptor state: the types haveDescriptor() reports
    events,       \* history: the descriptor events fed to rec so far, with their outcome
    last,         \* the last public call on rec that completed, and how it ended
    mutex,        \* _mutex: "free" or the thread that owns it
    rulePc,       \* the rule thread's position inside getDeviceRule
    include_port, \* getDeviceRule's argument in the call at hand
    device_rule,  \* getDeviceRule's local rule under construction
    ruleOut,      \* what the last getDeviceRule call gave its caller
    loadPc,       \* the driver thread's position inside loadDeviceDescriptor
    hashOut       \* what the last two getDeviceHash calls gave their callers, latest first

vars == <<rec, origin, have, events, last, mutex, rulePc, include_port,
          device_rule, ruleOut, loadPc, hashOut>>

(***************************************************************************)
(* Bounds of the model.                                                    *)
(***************************************************************************)
\* Descriptor events (and parser replacements) fed to one record.
MaxEvents == 5

(***************************************************************************)
(* Program constants.  The USB_*_MAX_LENGTH macros are defined in a header *)
(* of the repository; the model keeps their order (vendor and product id   *)
(* shorter than the generic bound) at a small scale.                       *)
(***************************************************************************)
USB_GENERIC_STRING_MAX_LENGTH == 2
USB_VID_STRING_MAX_LENGTH == 1
USB_PID_STRING_MAX_LENGTH == 1
USB_PORT_STRING_MAX_LENGTH == 3

USB_DESCRIPTOR_TYPE_DEVICE == "DEVICE"
USB_DESCRIPTOR_TYPE_CONFIGURATION == "CONFIGURATION"
USB_DESCRIPTOR_TYPE_INTERFACE == "INTERFACE"
USB_DESCRIPTOR_TYPE_ENDPOINT == "ENDPOINT"

\* Rule::DefaultID, and the ids a caller passes to setID.
DefaultID == "DefaultID"
IDs == {DefaultID, "id1"}

(***************************************************************************)
(* Strings.                                                                *)
(***************************************************************************)
RECURSIVE StringsUpTo(_, _)
StringsUpTo(chars, n) ==
    IF n = 0 THEN {<<>>}
    ELSE LET shorter == StringsUpTo(chars, n - 1)
         IN  shorter \cup {Append(s, c) : s \in {t \in shorter : Len(t) = n - 1}, c \in chars}

\* What a caller may pass to each setter: every string up to one character
\* past the field's bound.
NameInputs == StringsUpTo({"a", "b"}, USB_GENERIC_STRING_MAX_LENGTH + 1)
VendorInputs == StringsUpTo({"0", "1"}, USB_VID_STRING_MAX_LENGTH + 1)
ProductInputs == StringsUpTo({"0", "1"}, USB_PID_STRING_MAX_LENGTH + 1)
SerialInputs == StringsUpTo({"s"}, USB_GENERIC_STRING_MAX_LENGTH + 1)
PortInputs == StringsUpTo({"1"}, USB_PORT_STRING_MAX_LENGTH + 1)

(***************************************************************************)
(* Descriptors handed over by the parser.                                  *)
(***************************************************************************)
DeviceDescriptors == {[bNumConfigurations |-> n] : n \in {1, 2}}

InterfaceDescriptors ==
    {[bInterfaceClass |-> 3, bInterfaceSubClass |-> 1, bInterfaceProtocol |-> 1],
     [bInterfaceClass |-> 8, bInterfaceSubClass |-> 6, bInterfaceProtocol |-> 80]}

\* USBInterfaceType(const USBInterfaceDescriptor&): class, subclass, protocol.
USBInterfaceType(descriptor) ==
    <<descriptor.bInterfaceClass, descriptor.bInterfaceSubClass,
      descriptor.bInterfaceProtocol>>

(***************************************************************************)
(* The USBDescriptorParser's oracle.                                       *)
(***************************************************************************)
haveDescriptor(parser, type) == type \in parser

delDescriptor(parser, type) == parser \ {type}

\* The parser records a descriptor once its handler has returned.
setDescriptor(parser, type) == parser \cup {type}

\* A parser that has parsed nothing.
USBDescriptorParser == {}

(***************************************************************************)
(* Rules.                                                                  *)
(***************************************************************************)
\* makePointer<Rule>(): a default-constructed rule.
NewRule ==
    [id |-> DefaultID, target |-> "Invalid",
     deviceName |-> <<>>, vendorId |-> <<>>, productId |-> <<>>,
     serialNumber |-> <<>>, deviceHash |-> <<>>,
     devicePorts |-> <<>>, devicePortsSetOperator |-> "Unset",
     interfaceTypes |-> <<>>, interfaceTypesSetOperator |-> "Unset",
     deviceConfigurations |-> -1]

(***************************************************************************)
(* Construction and assignment.                                            *)
(***************************************************************************)
\* DevicePrivate(Device&)
DevicePrivateEmpty ==
    [id |-> DefaultID, target |-> "Unknown",
     name |-> <<>>, vendor_id |-> <<>>, product_id |-> <<>>,
     serial_number |-> <<>>, port |-> <<>>,
     interface_types |-> <<>>, num_configurations |-> -1]

\* DevicePrivate(Device&, const Rule&).  getDevicePorts()[0] on an empty
\* vector is undefined: the constructor then stores whatever string the
\* read yields (or the process dies, which leaves no record).
DevicePrivateFromRule(device_rule_arg) ==
    {[id |-> device_rule_arg.id, target |-> device_rule_arg.target,
      name |-> device_rule_arg.deviceName,
      vendor_id |-> device_rule_arg.vendorId,
      product_id |-> device_rule_arg.productId,
      serial_number |-> device_rule_arg.serialNumber,
      port |-> p,
      interface_types |-> device_rule_arg.interfaceTypes,
      num_configurations |-> device_rule_arg.deviceConfigurations] :
        p \in IF device_rule_arg.devicePorts # <<>>
              THEN {device_rule_arg.devicePorts[1]}
              ELSE PortInputs}

\* operator=(const DevicePrivate&)
Assign(lhs, rhs) ==
    [lhs EXCEPT !.id = rhs.id, !.target = rhs.target, !.name = rhs.name,
                !.vendor_id = rhs.vendor_id, !.product_id = rhs.product_id,
                !.serial_number = rhs.serial_number, !.port = rhs.port,
                !.interface_types = rhs.interface_types,
                !.num_configurations = rhs.num_configurations]

(***************************************************************************)
(* The setters.  Each gives ok or the exception thrown, and the record     *)
(* afterwards.                                                             *)
(***************************************************************************)
Stored(r) == [ok |-> TRUE, err |-> "none", rec |-> r]

OutOfRange(what, r) == [ok |-> FALSE, err |-> what, rec |-> r]

setID(r, id) == Stored([r EXCEPT !.id = id])

setTarget(r, target) == Stored([r EXCEPT !.target = target])

setDeviceName(r, name) ==
    IF Len(name) > USB_GENERIC_STRING_MAX_LENGTH
    THEN OutOfRange("setDeviceName: value size out-of-range", r)
    ELSE Stored([r EXCEPT !.name = name])

\* Mutant: the assignment comes before the length check.
setVendorID_AssignsFirst(r, vendor_id) ==
    IF Len(vendor_id) > USB_VID_STRING_MAX_LENGTH
    THEN OutOfRange("setVendorID: value size out-of-range",
                    [r EXCEPT !.vendor_id = vendor_id])
    ELSE Stored([r EXCEPT !.vendor_id = vendor_id])

setVendorID(r, vendor_id) ==
    IF Len(vendor_id) > USB_VID_STRING_MAX_LENGTH
    THEN OutOfRange("setVendorID: value size out-of-range", r)
    ELSE Stored([r EXCEPT !.vendor_id = vendor_id])

setProductID(r, product_id) ==
    IF Len(product_id) > USB_PID_STRING_MAX_LENGTH
    THEN OutOfRange("setProductID: value size out-of-range", r)
    ELSE Stored([r EXCEPT !.product_id = product_id])

setDevicePort(r, port) ==
    IF Len(port) > USB_PORT_STRING_MAX_LENGTH
    THEN OutOfRange("setDevicePort: value size out-of-range", r)
    ELSE Stored([r EXCEPT !.port = port])

setSerialNumber(r, serial_number) ==
    IF Len(serial_number) > USB_GENERIC_STRING_MAX_LENGTH
    THEN OutOfRange("setSerialNumber: value size out-of-range", r)
    ELSE Stored([r EXCEPT !.serial_number = serial_number])

(***************************************************************************)
(* The descriptor handlers.  Each takes the record and the parser and      *)
(* gives the outcome: ok or the exception thrown, the record and the       *)
(* parser afterwards.                                                      *)
(***************************************************************************)
Returned(r, parser) == [ok |-> TRUE, err |-> "none", rec |-> r, parser |-> parser]

Threw(what, r, parser) == [ok |-> FALSE, err |-> what, rec |-> r, parser |-> parser]

\* Mutants of the handlers: the duplicate check looks at the wrong descriptor
\* type; the device handler forgets interface_types.clear(); the configuration
\* handler clears interface_types as well; the endpoint handler checks nothing.
loadDeviceDescriptor_WrongType(r, parser, descriptor) ==
    IF haveDescriptor(parser, USB_DESCRIPTOR_TYPE_CONFIGURATION)
    THEN Threw("multiple device descriptors for one device", r, parser)
    ELSE Returned([r EXCEPT !.num_configurations = descriptor.bNumConfigurations,
                            !.interface_types = <<>>],
                  parser)

loadDeviceDescriptor_NoClear(r, parser, descriptor) ==
    IF haveDescriptor(parser, USB_DESCRIPTOR_TYPE_DEVICE)
    THEN Threw("multiple device descriptors for one device", r, parser)
    ELSE Returned([r EXCEPT !.num_configurations = descriptor.bNumConfigurations],
                  parser)

loadConfigurationDescriptor_ClearsTypes(r, parser, descriptor) ==
    IF ~haveDescriptor(parser, USB_DESCRIPTOR_TYPE_DEVICE)
    THEN Threw("missing parent device descriptor while loading configuration", r, parser)
    ELSE Returned([r EXCEPT !.interface_types = <<>>],
                  delDescriptor(delDescriptor(parser, USB_DESCRIPTOR_TYPE_INTERFACE),
                                USB_DESCRIPTOR_TYPE_ENDPOINT))

loadEndpointDescriptor_Unchecked(r, parser, descriptor) == Returned(r, parser)

\* Mutants of the device handler: it also resets the target; it writes before
\* it checks.
loadDeviceDescriptor_ResetsTarget(r, parser, descriptor) ==
    IF haveDescriptor(parser, USB_DESCRIPTOR_TYPE_DEVICE)
    THEN Threw("multiple device descriptors for one device", r, parser)
    ELSE Returned([r EXCEPT !.num_configurations = descriptor.bNumConfigurations,
                            !.interface_types = <<>>,
                            !.target = "Unknown"],
                  parser)

loadDeviceDescriptor_WritesFirst(r, parser, descriptor) ==
    IF haveDescriptor(parser, USB_DESCRIPTOR_TYPE_DEVICE)
    THEN Threw("multiple device descriptors for one device",
               [r EXCEPT !.num_configurations = descriptor.bNumConfigurations,
                         !.interface_types = <<>>],
               parser)
    ELSE Returned([r EXCEPT !.num_configurations = descriptor.bNumConfigurations,
                            !.interface_types = <<>>],
                  parser)

\* Mutant: the configuration handler makes the parser forget the endpoint
\* descriptors only.
loadConfigurationDescriptor_KeepsInterface(r, parser, descriptor) ==
    IF ~haveDescriptor(parser, USB_DESCRIPTOR_TYPE_DEVICE)
    THEN Threw("missing parent device descriptor while loading configuration", r, parser)
    ELSE Returned(r, delDescriptor(parser, USB_DESCRIPTOR_TYPE_ENDPOINT))

\* Mutant: the interface handler keeps only the latest interface type.
loadInterfaceDescriptor_Replaces(r, parser, descriptor) ==
    IF ~haveDescriptor(parser, USB_DESCRIPTOR_TYPE_CONFIGURATION)
    THEN Threw("missing parent configuration descriptor while loading interface", r, parser)
    ELSE Returned([r EXCEPT !.interface_types = <<USBInterfaceType(descriptor)>>],
                  parser)

loadDeviceDescriptor(r, parser, descriptor) ==
    IF haveDescriptor(parser, USB_DESCRIPTOR_TYPE_DEVICE)
    THEN Threw("multiple device descriptors for one device", r, parser)
    ELSE Returned([r EXCEPT !.num_configurations = descriptor.bNumConfigurations,
                            !.interface_types = <<>>],
                  parser)

loadConfigurationDescriptor(r, parser, descriptor) ==
    IF ~haveDescriptor(parser, USB_DESCRIPTOR_TYPE_DEVICE)
    THEN Threw("missing parent device descriptor while loading configuration", r, parser)
    ELSE Returned(r, delDescriptor(delDescriptor(parser, USB_DESCRIPTOR_TYPE_INTERFACE),
                                   USB_DESCRIPTOR_TYPE_ENDPOINT))

loadInterfaceDescriptor(r, parser, descriptor) ==
    IF ~haveDescriptor(parser, USB_DESCRIPTOR_TYPE_CONFIGURATION)
    THEN Threw("missing parent configuration descriptor while loading interface", r, parser)
    ELSE Returned([r EXCEPT !.interface_types =
                                Append(r.interface_types, USBInterfaceType(descriptor))],
                  parser)

loadEndpointDescriptor(r, parser, descriptor) ==
    IF ~haveDescriptor(parser, USB_DESCRIPTOR_TYPE_INTERFACE)
    THEN Threw("missing parent interface descriptor while loading endpoint", r, parser)
    ELSE Returned(r, parser)

(***************************************************************************)
(* The device hash.  crypto_generichash is taken as collision free on the  *)
(* bytes it is fed: the digest stands for exactly those bytes.             *)
(***************************************************************************)
crypto_generichash_init == <<>>

crypto_generichash_update(state, bytes) == state \o bytes

crypto_generichash_final(state) == [blake2b |-> state]

sodium_bin2hex(hash) == [hex |-> hash]

RECURSIVE HashFields(_, _)
HashFields(state, fields) ==
    IF fields = <<>> THEN state
    ELSE HashFields(crypto_generichash_update(state, Head(fields)), Tail(fields))

\* Mutant: include_port = true adds the port to the hashed fields.
getDeviceHash_HashesPort(r, with_port) ==
    IF r.vendor_id = <<>> \/ r.product_id = <<>>
    THEN [ok |-> FALSE, err |-> "Vendor ID and/or Product ID empty", value |-> <<>>]
    ELSE [ok |-> TRUE, err |-> "none",
          value |-> sodium_bin2hex(crypto_generichash_final(
                        HashFields(crypto_generichash_init,
                                   IF with_port
                                   THEN <<r.name, r.vendor_id, r.product_id,
                                          r.serial_number, r.port>>
                                   ELSE <<r.name, r.vendor_id, r.product_id,
                                          r.serial_number>>)))]

\* Mutant: only the vendor id is checked before hashing.
getDeviceHash_ChecksVendorOnly(r, with_port) ==
    IF r.vendor_id = <<>>
    THEN [ok |-> FALSE, err |-> "Vendor ID and/or Product ID empty", value |-> <<>>]
    ELSE [ok |-> TRUE, err |-> "none",
          value |-> sodium_bin2hex(crypto_generichash_final(
                        HashFields(crypto_generichash_init,
                                   <<r.name, r.vendor_id, r.product_id, r.serial_number>>)))]

\* getDeviceHash(include_port) const: the hex string, or the exception.
getDeviceHash(r, with_port) ==
    IF r.vendor_id = <<>> \/ r.product_id = <<>>
    THEN [ok |-> FALSE, err |-> "Vendor ID and/or Product ID empty", value |-> <<>>]
    ELSE [ok |-> TRUE, err |-> "none",
          value |-> sodium_bin2hex(crypto_generichash_final(
                        HashFields(crypto_generichash_init,
                                   <<r.name, r.vendor_id, r.product_id, r.serial_number>>)))]

(***************************************************************************)
(* getDeviceRule, statement by statement; the thread holds _mutex from     *)
(* line 83 to the return (or the exception) that destroys device_lock.     *)
(***************************************************************************)
\* Mutants of the rule generator: the port is attached whatever include_port
\* says; the serial number is not copied.
RuleCopyPort_Always(rule, r, with_port) ==
    [rule EXCEPT !.devicePorts = Append(rule.devicePorts, r.port),
                 !.devicePortsSetOperator = "Equals"]

RuleCopyFields_NoSerial(rule, r) ==
    [rule EXCEPT !.id = r.id, !.target = r.target, !.vendorId = r.vendor_id,
                 !.productId = r.product_id]

\* lines 88-92
RuleCopyFields(rule, r) ==
    [rule EXCEPT !.id = r.id, !.target = r.target, !.vendorId = r.vendor_id,
                 !.productId = r.product_id, !.serialNumber = r.serial_number]

\* lines 94-97
RuleCopyPort(rule, r, with_port) ==
    IF with_port
    THEN [rule EXCEPT !.devicePorts = Append(rule.devicePorts, r.port),
                      !.devicePortsSetOperator = "Equals"]
    ELSE rule

\* lines 99-100
RuleCopyInterfaceTypes(rule, r) ==
    [rule EXCEPT !.interfaceTypes = r.interface_types,
                 !.interfaceTypesSetOperator = "Equals"]

\* line 101
RuleCopyName(rule, r) == [rule EXCEPT !.deviceName = r.name]

\* line 102, on a record that can be hashed
RuleSetHash(rule, r) == [rule EXCEPT !.deviceHash = getDeviceHash(r, FALSE).value]

\* The whole call on a record nobody else touches meanwhile.
getDeviceRule(r, with_port) ==
    LET built == RuleCopyName(RuleCopyInterfaceTypes(
                     RuleCopyPort(RuleCopyFields(NewRule, r), r, with_port), r), r)
    IN  IF getDeviceHash(r, FALSE).ok
        THEN [ok |-> TRUE, err |-> "none", rule |-> RuleSetHash(built, r)]
        ELSE [ok |-> FALSE, err |-> getDeviceHash(r, FALSE).err, rule |-> NewRule]

(***************************************************************************)
(* History entries and call results.                                       *)
(***************************************************************************)
\* One descriptor event: its kind, the oracle it met, how it ended, the
\* interface type it carried (if any) and interface_types afterwards.
Event(kind, parser, res, itype) ==
    [kind |-> kind, parser |-> parser, ok |-> res.ok, err |-> res.err,
     itype |-> itype, types |-> res.rec.interface_types]

NoRule == [ok |-> FALSE, err |-> "not called", rule |-> NewRule, fed |-> 0]

NoHash == [ok |-> FALSE, err |-> "not called", value |-> <<>>,
           rec |-> DevicePrivateEmpty, with_port |-> FALSE]

NoCall == [op |-> "none", ok |-> TRUE, arg |-> <<>>]

\* No call is in progress on any thread.
Sequential == rulePc = "idle" /\ loadPc = "idle" /\ mutex = "free"

\* The driver thread (the one that feeds descriptors and calls the setters)
\* is between two calls.  Neither the setters nor the handlers touch _mutex.
DriverIdle == loadPc = "idle"

(***************************************************************************)
(* The descriptor events, as the parser delivers them: the handler runs,   *)
(* and the parser records the descriptor if the handler returned.          *)
(***************************************************************************)
Feed(kind, type, res, itype) ==
    /\ rec' = res.rec
    /\ have' = IF res.ok THEN setDescriptor(res.parser, type) ELSE res.parser
    /\ events' = Append(events, Event(kind, have, res, itype))
    /\ last' = [op |-> kind, ok |-> res.ok, arg |-> <<>>]

FeedDevice(limit, descriptors) ==
    /\ DriverIdle
    /\ Len(events) < limit
    /\ \E descriptor \in descriptors :
         Feed("device", USB_DESCRIPTOR_TYPE_DEVICE,
              loadDeviceDescriptor(rec, have, descriptor), <<>>)
    /\ UNCHANGED <<origin, mutex, rulePc, include_port, device_rule, ruleOut, loadPc, hashOut>>

FeedConfiguration(limit) ==
    /\ DriverIdle
    /\ Len(events) < limit
    /\ Feed("configuration", USB_DESCRIPTOR_TYPE_CONFIGURATION,
            loadConfigurationDescriptor(rec, have, "configuration"), <<>>)
    /\ UNCHANGED <<origin, mutex, rulePc, include_port, device_rule, ruleOut, loadPc, hashOut>>

FeedInterface(limit, descriptors) ==
    /\ DriverIdle
    /\ Len(events) < limit
    /\ \E descriptor \in descriptors :
         Feed("interface", USB_DESCRIPTOR_TYPE_INTERFACE,
              loadInterfaceDescriptor(rec, have, descriptor),
              USBInterfaceType(descriptor))
    /\ UNCHANGED <<origin, mutex, rulePc, include_port, device_rule, ruleOut, loadPc, hashOut>>

FeedEndpoint(limit) ==
    /\ DriverIdle
    /\ Len(events) < limit
    /\ Feed("endpoint", USB_DESCRIPTOR_TYPE_ENDPOINT,
            loadEndpointDescriptor(rec, have, "endpoint"), <<>>)
    /\ UNCHANGED <<origin, mutex, rulePc, include_port, device_rule, ruleOut, loadPc, hashOut>>

\* The caller starts over with a parser that has parsed nothing (the handlers
\* take the parser as an argument; the record does not own it).
NewParser(limit) ==
    /\ DriverIdle
    /\ Len(events) < limit
    /\ have # USBDescriptorParser
    /\ have' = USBDescriptorParser
    /\ events' = Append(events, [kind |-> "parser", parser |-> have, ok |-> TRUE,
                                 err |-> "none", itype |-> <<>>,
                                 types |-> rec.interface_types])
    /\ UNCHANGED <<rec, origin, last, mutex, rulePc, include_port, device_rule,
                   ruleOut, loadPc, hashOut>>

\* getDeviceRule called while no other thread uses the record.
GetDeviceRule ==
    /\ Sequential
    /\ \E with_port \in BOOLEAN :
         LET res == getDeviceRule(rec, with_port)
         IN  /\ ruleOut' = [ok |-> res.ok, err |-> res.err, rule |-> res.rule,
                            fed |-> Len(events)]
             /\ include_port' = with_port
             /\ last' = [op |-> "getDeviceRule", ok |-> res.ok, arg |-> <<>>]
    /\ UNCHANGED <<rec, origin, have, events, mutex, rulePc, device_rule, loadPc, hashOut>>

(***************************************************************************)
(* Descriptor ingestion on one record: a fresh record, or one replayed     *)
(* from a stored rule.                                                     *)
(***************************************************************************)
StoredRule ==
    [NewRule EXCEPT !.id = "id1", !.target = "Allow",
                    !.deviceName = <<"a">>, !.vendorId = <<"0">>,
                    !.productId = <<"1">>, !.serialNumber = <<"s">>,
                    !.devicePorts = <<(<<"1">>)>>, !.devicePortsSetOperator = "Equals",
                    !.interfaceTypes = <<(<<3, 1, 1>>)>>,
                    !.interfaceTypesSetOperator = "Equals",
                    !.deviceConfigurations = 1]

Quiet ==
    /\ have = USBDescriptorParser
    /\ events = <<>>
    /\ last = NoCall
    /\ mutex = "free"
    /\ rulePc = "idle"
    /\ include_port = FALSE
    /\ device_rule = NewRule
    /\ ruleOut = NoRule
    /\ loadPc = "idle"
    /\ hashOut = <<NoHash, NoHash>>

Init ==
    /\ \/ rec = DevicePrivateEmpty /\ origin = [ctor |-> "empty", ub |-> FALSE]
       \/ rec \in DevicePrivateFromRule(StoredRule) /\ origin = [ctor |-> "rule", ub |-> FALSE]
    /\ Quiet

Next ==
    \/ FeedDevice(MaxEvents, DeviceDescriptors)
    \/ FeedConfiguration(MaxEvents)
    \/ FeedInterface(MaxEvents, InterfaceDescriptors)
    \/ FeedEndpoint(MaxEvents)
    \/ NewParser(MaxEvents)
    \/ GetDeviceRule

Spec == Init /\ [][Next]_vars

(***************************************************************************)
(* Reading the history.                                                    *)
(***************************************************************************)
IsAccepted(e, kind) == e.kind = kind /\ e.ok

IsRejected(e, kind) == e.kind = kind /\ ~e.ok

\* No parser replacement between events i and j.
SameParser(i, j) == \A k \in i..j : events[k].kind # "parser"

\* The interface types carried by the accepted interface events of evs, in order.
AcceptedTypes(evs) ==
    LET sel == SelectSeq(evs, LAMBDA e : IsAccepted(e, "interface"))
    IN  [k \in 1..Len(sel) |-> sel[k].itype]

Latest(S) == IF S = {} THEN 0 ELSE CHOOSE i \in S : \A j \in S : j <= i

LastDevice == Latest({i \in DOMAIN events : IsAccepted(events[i], "device")})

ConfigurationsSince(d) == {i \in DOMAIN events : i > d /\ IsAccepted(events[i], "configuration")}

EventsAfter(i) == SubSeq(events, i + 1, Len(events))

(***************************************************************************)
(* C1.  A child descriptor event is rejected whenever the parser has not   *)
(* seen its parent: a configuration event without a device descriptor, an  *)
(* interface event without a configuration descriptor, an endpoint event   *)
(* without an interface descriptor, in every reachable history.            *)
(***************************************************************************)
C1_ChildRejectedWithoutParent ==
    \A i \in DOMAIN events :
        LET e == events[i]
        IN  /\ (e.kind = "configuration" /\ USB_DESCRIPTOR_TYPE_DEVICE \notin e.parser)
                  => ~e.ok /\ e.err = "missing parent device descriptor while loading configuration"
            /\ (e.kind = "interface" /\ USB_DESCRIPTOR_TYPE_CONFIGURATION \notin e.parser)
                  => ~e.ok /\ e.err = "missing parent configuration descriptor while loading interface"
            /\ (e.kind = "endpoint" /\ USB_DESCRIPTOR_TYPE_INTERFACE \notin e.parser)
                  => ~e.ok /\ e.err = "missing parent interface descriptor while loading endpoint"

\* All three rejections in one history: a configuration event before any
\* device, an interface event before any configuration, and an endpoint event
\* after a configuration but before any interface.
C1_Witness ==
    /\ \E i \in DOMAIN events :
          IsRejected(events[i], "configuration") /\ events[i].parser = {}
    /\ \E i \in DOMAIN events :
          IsRejected(events[i], "interface")
          /\ events[i].parser = {USB_DESCRIPTOR_TYPE_DEVICE}
    /\ \E i \in DOMAIN events :
          IsRejected(events[i], "endpoint")
          /\ events[i].parser = {USB_DESCRIPTOR_TYPE_DEVICE, USB_DESCRIPTOR_TYPE_CONFIGURATION}

(***************************************************************************)
(* C2.  With one parser, once a device descriptor event has been accepted, *)
(* every later device descriptor event fails with the duplicate-descriptor *)
(* error, whatever events came in between.                                 *)
(***************************************************************************)
C2_SecondDeviceRejected ==
    \A i, j \in DOMAIN events :
        (i < j /\ IsAccepted(events[i], "device") /\ events[j].kind = "device"
               /\ SameParser(i, j))
            => /\ ~events[j].ok
               /\ events[j].err = "multiple device descriptors for one device"

\* A device event rejected after device, configuration, interface, endpoint
\* were all accepted.
C2_Witness ==
    \E i \in DOMAIN events :
        /\ i + 4 \in DOMAIN events
        /\ IsAccepted(events[i], "device")
        /\ IsAccepted(events[i + 1], "configuration")
        /\ IsAccepted(events[i + 2], "interface")
        /\ IsAccepted(events[i + 3], "endpoint")
        /\ IsRejected(events[i + 4], "device")

(***************************************************************************)
(* C3.  As claimed: after the events device, configuration, interface, a   *)
(* further device event leaves interfaceTypes empty.                       *)
(***************************************************************************)
C3_DeviceAfterInterfaceClears ==
    \A i \in DOMAIN events :
        (/\ i + 3 \in DOMAIN events
         /\ IsAccepted(events[i], "device")
         /\ IsAccepted(events[i + 1], "configuration")
         /\ IsAccepted(events[i + 2], "interface")
         /\ events[i + 3].kind = "device")
            => events[i + 3].types = <<>>

(***************************************************************************)
(* C3, amended.  A device event that is accepted, which takes a parser     *)
(* with no device descriptor recorded, leaves interfaceTypes empty; a      *)
(* device event that is rejected leaves interfaceTypes as it was.          *)
(***************************************************************************)
C3_AcceptedDeviceClears ==
    \A i \in DOMAIN events :
        /\ IsAccepted(events[i], "device") => events[i].types = <<>>
        /\ (IsRejected(events[i], "device") /\ i > 1)
              => events[i].types = events[i - 1].types

\* device, configuration, interface, then a device event through a new
\* parser: accepted, and the interface type is gone.
C3_Witness ==
    \E i \in DOMAIN events :
        /\ i + 4 \in DOMAIN events
        /\ IsAccepted(events[i], "device")
        /\ IsAccepted(events[i + 1], "configuration")
        /\ IsAccepted(events[i + 2], "interface")
        /\ events[i + 2].types # <<>>
        /\ events[i + 3].kind = "parser"
        /\ IsAccepted(events[i + 4], "device")
        /\ rec.interface_types = <<>>

(***************************************************************************)
(* C4.  As claimed: after device, configuration(A), interface events,      *)
(* configuration(B), interface events, interfaceTypes holds only the types *)
(* that arrived after configuration(B).                                    *)
(***************************************************************************)
C4_OnlyLastConfiguration ==
    LET cs == ConfigurationsSince(LastDevice)
    IN  (LastDevice > 0 /\ Cardinality(cs) >= 2)
            => rec.interface_types = AcceptedTypes(EventsAfter(Latest(cs)))

(***************************************************************************)
(* C4, amended.  After device, configuration(A), interface events,         *)
(* configuration(B), interface events, interfaceTypes holds the types      *)
(* accepted under both configurations, in the order of arrival.            *)
(***************************************************************************)
C4_AccumulatesAcrossConfigurations ==
    LET cs == ConfigurationsSince(LastDevice)
    IN  (LastDevice > 0 /\ Cardinality(cs) >= 2)
            => rec.interface_types = AcceptedTypes(EventsAfter(LastDevice))

\* An interface accepted under each of two configurations.
C4_Witness ==
    \E i \in DOMAIN events :
        /\ i + 4 = Len(events)
        /\ IsAccepted(events[i], "device")
        /\ IsAccepted(events[i + 1], "configuration")
        /\ IsAccepted(events[i + 2], "interface")
        /\ IsAccepted(events[i + 3], "configuration")
        /\ IsAccepted(events[i + 4], "interface")
        /\ events[i + 2].itype # events[i + 4].itype
        /\ rec.interface_types = <<events[i + 2].itype, events[i + 4].itype>>

(***************************************************************************)
(* C7.  As claimed: ingestion fails closed.  Once a descriptor event on    *)
(* the record has failed, no later getDeviceRule call on it returns a      *)
(* rule: a rule was only ever returned while every event fed before the    *)
(* call had been accepted.                                                 *)
(***************************************************************************)
C7_NoRuleAfterFailedIngestion ==
    ruleOut.ok => \A i \in 1..ruleOut.fed : events[i].ok

(***************************************************************************)
(* Setter calls and assignment on a record no other thread uses.           *)
(***************************************************************************)
Call(op, arg, res) ==
    /\ rec' = res.rec
    /\ last' = [op |-> op, ok |-> res.ok, arg |-> arg]
    /\ UNCHANGED <<origin, have, events, mutex, rulePc, include_port, device_rule,
                   ruleOut, loadPc, hashOut>>

SetID(ids) ==
    DriverIdle /\ \E id \in ids : Call("setID", id, setID(rec, id))

SetTarget(targets) ==
    DriverIdle /\ \E target \in targets : Call("setTarget", target, setTarget(rec, target))

SetDeviceName(names) ==
    DriverIdle /\ \E name \in names : Call("setDeviceName", name, setDeviceName(rec, name))

SetVendorID(ids) ==
    DriverIdle /\ \E vendor_id \in ids :
        Call("setVendorID", vendor_id, setVendorID(rec, vendor_id))

SetProductID(ids) ==
    DriverIdle /\ \E product_id \in ids :
        Call("setProductID", product_id, setProductID(rec, product_id))

SetDevicePort(ports) ==
    DriverIdle /\ \E port \in ports : Call("setDevicePort", port, setDevicePort(rec, port))

SetSerialNumber(serials) ==
    DriverIdle /\ \E serial_number \in serials :
        Call("setSerialNumber", serial_number, setSerialNumber(rec, serial_number))

\* *this = rhs
AssignFrom(others) ==
    DriverIdle /\ \E rhs \in others : Call("operator=", <<>>, Stored(Assign(rec, rhs)))

(***************************************************************************)
(* The record's text fields: every way a record comes to be (empty, from a *)
(* rule, assigned from another record) followed by any setter calls.       *)
(***************************************************************************)
\* Rules a record is built from: a stored rule, the same rule without a port
\* (as getDeviceRule(false) returns it), and one whose device name is longer
\* than a device's may be.
RulesToLoad ==
    {StoredRule,
     [StoredRule EXCEPT !.devicePorts = <<>>, !.devicePortsSetOperator = "Unset"],
     [StoredRule EXCEPT !.deviceName = <<"a", "a", "a">>]}

Constructed ==
    \/ rec = DevicePrivateEmpty /\ origin = [ctor |-> "empty", ub |-> FALSE]
    \/ \E rule \in RulesToLoad :
          /\ rec \in DevicePrivateFromRule(rule)
          /\ origin = [ctor |-> "rule", ub |-> rule.devicePorts = <<>>]

\* The records another device object may hold when it is assigned to this one.
OtherRecords ==
    {DevicePrivateEmpty} \cup UNION {DevicePrivateFromRule(rule) : rule \in {StoredRule}}

InitFields == Constructed /\ Quiet

NextFields ==
    \/ SetDeviceName(NameInputs)
    \/ SetVendorID(VendorInputs)
    \/ SetProductID(ProductInputs)
    \/ SetDevicePort(PortInputs)
    \/ SetSerialNumber(SerialInputs)
    \/ AssignFrom(OtherRecords)

SpecFields == InitFields /\ [][NextFields]_vars

(***************************************************************************)
(* C8.  As claimed: in every reachable state of a record, however it was   *)
(* created and whatever setters were called, name and serialNumber are no  *)
(* longer than the generic string bound, vendorId and productId no longer  *)
(* than theirs, port no longer than the port bound.                        *)
(***************************************************************************)
C8_FieldsWithinBounds ==
    /\ Len(rec.name) <= USB_GENERIC_STRING_MAX_LENGTH
    /\ Len(rec.serial_number) <= USB_GENERIC_STRING_MAX_LENGTH
    /\ Len(rec.vendor_id) <= USB_VID_STRING_MAX_LENGTH
    /\ Len(rec.product_id) <= USB_PID_STRING_MAX_LENGTH
    /\ Len(rec.port) <= USB_PORT_STRING_MAX_LENGTH

(***************************************************************************)
(* C9.  Each of setDeviceName, setVendorID, setProductID, setDevicePort    *)
(* and setSerialNumber, called with a string longer than its field's       *)
(* bound, fails and leaves every field of the record unchanged; called     *)
(* with a string within the bound, it succeeds and the field holds exactly *)
(* that string.                                                            *)
(***************************************************************************)
SetterBound ==
    [setDeviceName |-> USB_GENERIC_STRING_MAX_LENGTH,
     setVendorID |-> USB_VID_STRING_MAX_LENGTH,
     setProductID |-> USB_PID_STRING_MAX_LENGTH,
     setDevicePort |-> USB_PORT_STRING_MAX_LENGTH,
     setSerialNumber |-> USB_GENERIC_STRING_MAX_LENGTH]

SetterField(r) ==
    [setDeviceName |-> r.name, setVendorID |-> r.vendor_id,
     setProductID |-> r.product_id, setDevicePort |-> r.port,
     setSerialNumber |-> r.serial_number]

C9_SettersValidateBeforeStoring ==
    [][\A op \in DOMAIN SetterBound :
          last'.op = op =>
              IF Len(last'.arg) > SetterBound[op]
              THEN ~last'.ok /\ rec' = rec
              ELSE last'.ok /\ SetterField(rec')[op] = last'.arg]_vars

\* A vendor id one character too long was refused and the record still holds
\* the values stored by earlier calls.
C9_Witness ==
    /\ last.op = "setVendorID"
    /\ ~last.ok
    /\ Len(last.arg) = USB_VID_STRING_MAX_LENGTH + 1
    /\ rec.vendor_id = <<"1">>
    /\ rec.name = <<"b", "a">>
    /\ rec.port = <<"1", "1", "1">>

(***************************************************************************)
(* The device hash across mutations: the record is hashed, changed by the  *)
(* setters or by assignment, and hashed again.                             *)
(***************************************************************************)
GetDeviceHash ==
    /\ Sequential
    /\ \E with_port \in BOOLEAN :
         LET res == getDeviceHash(rec, with_port)
         IN  /\ hashOut' = <<[ok |-> res.ok, err |-> res.err, value |-> res.value,
                              rec |-> rec, with_port |-> with_port],
                             hashOut[1]>>
             /\ last' = [op |-> "getDeviceHash", ok |-> res.ok, arg |-> <<>>]
    /\ UNCHANGED <<rec, origin, have, events, mutex, rulePc, include_port,
                   device_rule, ruleOut, loadPc>>

\* The same device replayed from a rule that lists no interface and another
\* configuration count.
OtherStoredRule ==
    [StoredRule EXCEPT !.interfaceTypes = <<>>, !.deviceConfigurations = 2]

InitHash ==
    /\ rec \in DevicePrivateFromRule(StoredRule)
    /\ origin = [ctor |-> "rule", ub |-> FALSE]
    /\ Quiet

NextHash ==
    \/ SetDeviceName({<<"a">>, <<"b">>})
    \/ SetDevicePort({<<"1">>, <<"1", "1">>})
    \/ SetID(IDs)
    \/ SetTarget({"Allow", "Block"})
    \/ AssignFrom(DevicePrivateFromRule(StoredRule) \cup DevicePrivateFromRule(OtherStoredRule))
    \/ GetDeviceHash

SpecHash == InitHash /\ [][NextHash]_vars

\* The fields getDeviceHash is claimed to depend on.
Identity(r) == <<r.name, r.vendor_id, r.product_id, r.serial_number>>

(***************************************************************************)
(* C10.  getDeviceHash is a function of (name, vendorId, productId,        *)
(* serialNumber) only: two calls on records that agree on these four       *)
(* fields, vendorId and productId non-empty, give the same hash whatever   *)
(* the port, id, target, interfaceTypes, numConfigurations and the         *)
(* include_port argument of each call; in particular two calls on an       *)
(* unchanged record give the same output.                                  *)
(***************************************************************************)
C10_HashOfIdentityOnly ==
    LET now == hashOut[1]
        before == hashOut[2]
    IN  (now.ok /\ before.ok /\ Identity(now.rec) = Identity(before.rec))
            => now.value = before.value

\* Two calls that agree on the identity and on nothing else.
C10_Witness ==
    LET now == hashOut[1]
        before == hashOut[2]
    IN  /\ now.ok /\ before.ok
        /\ Identity(now.rec) = Identity(before.rec)
        /\ now.rec.port # before.rec.port
        /\ now.rec.id # before.rec.id
        /\ now.rec.target # before.rec.target
        /\ now.rec.interface_types # before.rec.interface_types
        /\ now.rec.num_configurations # before.rec.num_configurations
        /\ now.with_port # before.with_port

(***************************************************************************)
(* Two threads on one record.  The rule thread runs getDeviceRule one      *)
(* statement at a time, holding _mutex from line 83 until device_lock is   *)
(* destroyed.  The driver thread calls the setters and feeds descriptors;  *)
(* it may lock refDeviceMutex() around its calls, and nothing makes it.    *)
(***************************************************************************)
\* Descriptor events fed while the rule thread runs.
MaxConcurrentEvents == 3

\* lines 82-83
RuleLock ==
    /\ rulePc = "idle"
    /\ mutex = "free"
    /\ mutex' = "rule"
    /\ \E with_port \in BOOLEAN : include_port' = with_port
    /\ device_rule' = NewRule
    /\ rulePc' = "line88"
    /\ UNCHANGED <<rec, origin, have, events, last, ruleOut, loadPc, hashOut>>

RuleStep(from, to, rule) ==
    /\ rulePc = from
    /\ device_rule' = rule
    /\ rulePc' = to
    /\ UNCHANGED <<rec, origin, have, events, last, mutex, include_port, ruleOut,
                   loadPc, hashOut>>

RuleFields == RuleStep("line88", "line94", RuleCopyFields(device_rule, rec))

RulePort == RuleStep("line94", "line99", RuleCopyPort(device_rule, rec, include_port))

RuleTypes == RuleStep("line99", "line101", RuleCopyInterfaceTypes(device_rule, rec))

RuleName == RuleStep("line101", "line102", RuleCopyName(device_rule, rec))

\* Mutant: the exception leaves getDeviceRule with _mutex still locked.
RuleHash_KeepsLockOnThrow ==
    /\ rulePc = "line102"
    /\ IF getDeviceHash(rec, FALSE).ok
       THEN /\ device_rule' = RuleSetHash(device_rule, rec)
            /\ rulePc' = "line104"
            /\ UNCHANGED <<mutex, ruleOut, last>>
       ELSE /\ ruleOut' = [ok |-> FALSE, err |-> getDeviceHash(rec, FALSE).err,
                           rule |-> NewRule, fed |-> Len(events)]
            /\ last' = [op |-> "getDeviceRule", ok |-> FALSE, arg |-> <<>>]
            /\ rulePc' = "idle"
            /\ UNCHANGED <<mutex, device_rule>>
    /\ UNCHANGED <<rec, origin, have, events, include_port, loadPc, hashOut>>

\* line 102: the hash is stored, or getDeviceHash throws, device_lock is
\* destroyed on the way out and the caller gets the exception.
RuleHash ==
    /\ rulePc = "line102"
    /\ IF getDeviceHash(rec, FALSE).ok
       THEN /\ device_rule' = RuleSetHash(device_rule, rec)
            /\ rulePc' = "line104"
            /\ UNCHANGED <<mutex, ruleOut, last>>
       ELSE /\ ruleOut' = [ok |-> FALSE, err |-> getDeviceHash(rec, FALSE).err,
                           rule |-> NewRule, fed |-> Len(events)]
            /\ last' = [op |-> "getDeviceRule", ok |-> FALSE, arg |-> <<>>]
            /\ mutex' = "free"
            /\ rulePc' = "idle"
            /\ UNCHANGED device_rule
    /\ UNCHANGED <<rec, origin, have, events, include_port, loadPc, hashOut>>

\* line 104
RuleReturn ==
    /\ rulePc = "line104"
    /\ ruleOut' = [ok |-> TRUE, err |-> "none", rule |-> device_rule, fed |-> Len(events)]
    /\ last' = [op |-> "getDeviceRule", ok |-> TRUE, arg |-> <<>>]
    /\ mutex' = "free"
    /\ rulePc' = "idle"
    /\ UNCHANGED <<rec, origin, have, events, include_port, device_rule, loadPc, hashOut>>

\* std::unique_lock<std::mutex> lock(refDeviceMutex()) in the driver.
DriverLock ==
    /\ DriverIdle
    /\ mutex = "free"
    /\ mutex' = "driver"
    /\ UNCHANGED <<rec, origin, have, events, last, rulePc, include_port, device_rule,
                   ruleOut, loadPc, hashOut>>

DriverUnlock ==
    /\ DriverIdle
    /\ mutex = "driver"
    /\ mutex' = "free"
    /\ UNCHANGED <<rec, origin, have, events, last, rulePc, include_port, device_rule,
                   ruleOut, loadPc, hashOut>>

\* loadDeviceDescriptor, lines 225-228: the check and the first of its two
\* writes.
LoadDeviceBegin(limit, descriptors) ==
    /\ DriverIdle
    /\ Len(events) < limit
    /\ \E descriptor \in descriptors :
         LET res == loadDeviceDescriptor(rec, have, descriptor)
         IN  IF res.ok
             THEN /\ rec' = [rec EXCEPT !.num_configurations = res.rec.num_configurations]
                  /\ loadPc' = "line229"
                  /\ UNCHANGED <<have, events, last>>
             ELSE /\ Feed("device", USB_DESCRIPTOR_TYPE_DEVICE, res, <<>>)
                  /\ UNCHANGED loadPc
    /\ UNCHANGED <<origin, mutex, rulePc, include_port, device_rule, ruleOut, hashOut>>

\* loadDeviceDescriptor, lines 229-230, and the parser recording the descriptor.
LoadDeviceEnd ==
    /\ loadPc = "line229"
    /\ Feed("device", USB_DESCRIPTOR_TYPE_DEVICE,
            Returned([rec EXCEPT !.interface_types = <<>>], have), <<>>)
    /\ loadPc' = "idle"
    /\ UNCHANGED <<origin, mutex, rulePc, include_port, device_rule, ruleOut, hashOut>>

InitConcurrent ==
    /\ rec \in DevicePrivateFromRule(StoredRule)
    /\ origin = [ctor |-> "rule", ub |-> FALSE]
    /\ Quiet

\* The rule thread makes one call; the driver thread runs freely before,
\* during and after it.
NextConcurrent ==
    \/ ruleOut = NoRule /\ RuleLock
    \/ RuleFields
    \/ RulePort
    \/ RuleTypes
    \/ RuleName
    \/ RuleHash
    \/ RuleReturn
    \/ DriverLock
    \/ DriverUnlock
    \/ SetDeviceName({<<"a">>, <<"b">>})
    \/ SetVendorID({<<>>, <<"0">>})
    \/ LoadDeviceBegin(MaxConcurrentEvents, {[bNumConfigurations |-> 2]})
    \/ LoadDeviceEnd
    \/ FeedConfiguration(MaxConcurrentEvents)
    \/ FeedInterface(MaxConcurrentEvents,
                     {[bInterfaceClass |-> 8, bInterfaceSubClass |-> 6,
                       bInterfaceProtocol |-> 80]})

SpecConcurrent == InitConcurrent /\ [][NextConcurrent]_vars

\* What getDeviceHash gives for the identity a rule carries.
HashOfRule(rule) ==
    getDeviceHash([DevicePrivateEmpty EXCEPT !.name = rule.deviceName,
                                             !.vendor_id = rule.vendorId,
                                             !.product_id = rule.productId,
                                             !.serial_number = rule.serialNumber],
                  FALSE).value

(***************************************************************************)
(* C5.  As claimed: with getDeviceRule in one thread and a single-field    *)
(* setter in another, every rule returned has fields taken from one state  *)
(* of the record; in particular its deviceHash is the hash of the          *)
(* deviceName, vendorId, productId and serialNumber it carries.            *)
(***************************************************************************)
C5_RuleFromOneState ==
    ruleOut.ok => ruleOut.rule.deviceHash = HashOfRule(ruleOut.rule)

(***************************************************************************)
(* C6.  As claimed: a descriptor event is atomic with respect to a         *)
(* concurrent getDeviceRule call: no event is in the middle of its writes  *)
(* while getDeviceRule holds the guard.                                    *)
(***************************************************************************)
C6_NoEventInsideRuleGeneration ==
    ~(loadPc # "idle" /\ mutex = "rule")

(***************************************************************************)
(* The identity a hash or a rule needs: vendor id and product id are set   *)
(* and unset by the caller, and getDeviceHash and getDeviceRule are called *)
(* in between.                                                             *)
(***************************************************************************)
NextIdentity ==
    \/ SetVendorID({<<>>, <<"0">>})
    \/ SetProductID({<<>>, <<"1">>})
    \/ GetDeviceHash
    \/ GetDeviceRule

SpecIdentity == Init /\ [][NextIdentity]_vars

\* vendorId or productId is empty.
IdentityIncomplete(r) == r.vendor_id = <<>> \/ r.product_id = <<>>

(***************************************************************************)
(* C11.  getDeviceHash and getDeviceRule fail with the identity-incomplete *)
(* error whenever vendorId or productId is empty when they are called, and *)
(* succeed whenever both are non-empty; a failed call returns no rule and  *)
(* leaves the record unchanged.                                            *)
(***************************************************************************)
C11_IncompleteIdentityFails ==
    [][/\ last'.op = "getDeviceRule" =>
              IF IdentityIncomplete(rec)
              THEN /\ ~ruleOut'.ok
                   /\ ruleOut'.err = "Vendor ID and/or Product ID empty"
                   /\ rec' = rec
              ELSE ruleOut'.ok
       /\ last'.op = "getDeviceHash" =>
              IF IdentityIncomplete(rec)
              THEN /\ ~hashOut'[1].ok
                   /\ hashOut'[1].err = "Vendor ID and/or Product ID empty"
                   /\ rec' = rec
              ELSE hashOut'[1].ok]_vars

\* getDeviceRule has just failed on a record with a vendor id and no product
\* id, after getDeviceHash had failed on a record with a product id and no
\* vendor id, and a call before that had succeeded.
C11_Witness ==
    /\ last.op = "getDeviceRule"
    /\ ~ruleOut.ok
    /\ rec.vendor_id # <<>> /\ rec.product_id = <<>>
    /\ ~hashOut[1].ok
    /\ hashOut[1].rec.vendor_id = <<>> /\ hashOut[1].rec.product_id # <<>>
    /\ hashOut[2].ok

(***************************************************************************)
(* Rules out of a record and records out of rules: the record is filled by *)
(* the setters and by descriptor events, getDeviceRule is called on it,    *)
(* and a rule that getDeviceRule returned is replayed through              *)
(* DevicePrivate(Device&, const Rule&).                                    *)
(***************************************************************************)
\* Descriptor events fed to a record whose rules are taken.
MaxRuleEvents == 3

\* DevicePrivate(p_instance, *rule) with the rule the last getDeviceRule call
\* returned: the record built from it takes the place of the one observed.
\* last.arg keeps the record that was observed before.
Replay ==
    /\ Sequential
    /\ ruleOut.ok
    /\ rec' \in DevicePrivateFromRule(ruleOut.rule)
    /\ origin' = [ctor |-> "rule", ub |-> ruleOut.rule.devicePorts = <<>>]
    /\ last' = [op |-> "DevicePrivate", ok |-> TRUE, arg |-> rec]
    /\ UNCHANGED <<have, events, mutex, rulePc, include_port, device_rule, ruleOut,
                   loadPc, hashOut>>

\* A stored rule that lists two interfaces.
TwoInterfaceRule ==
    [StoredRule EXCEPT !.interfaceTypes = <<(<<8, 6, 80>>), (<<3, 1, 1>>)>>]

NextRule ==
    \/ SetDeviceName({<<"b">>})
    \/ SetDevicePort({<<"1", "1">>})
    \/ FeedDevice(MaxRuleEvents, {[bNumConfigurations |-> 2]})
    \/ FeedConfiguration(MaxRuleEvents)
    \/ FeedInterface(MaxRuleEvents, InterfaceDescriptors)
    \/ GetDeviceRule
    \/ Replay

\* Policy replay: the record starts as the copy of a stored rule.
InitRule ==
    /\ rec \in DevicePrivateFromRule(TwoInterfaceRule)
    /\ origin = [ctor |-> "rule", ub |-> FALSE]
    /\ Quiet

SpecRule == InitRule /\ [][NextRule]_vars

(***************************************************************************)
(* C12.  getDeviceRule(include_port = true) returns a rule whose port set  *)
(* holds exactly one entry, the record's current port, with the Equals set *)
(* operator; getDeviceRule(include_port = false) returns a rule whose port *)
(* set is empty.                                                           *)
(***************************************************************************)
C12_PortOnlyWhenAsked ==
    [][(last'.op = "getDeviceRule" /\ ruleOut'.ok) =>
          IF include_port'
          THEN /\ ruleOut'.rule.devicePorts = <<rec.port>>
               /\ ruleOut'.rule.devicePortsSetOperator = "Equals"
          ELSE ruleOut'.rule.devicePorts = <<>>]_vars

\* A rule with the port the caller has just set, taken from a record that
\* went through descriptor ingestion.
C12_Witness ==
    /\ last.op = "getDeviceRule"
    /\ ruleOut.ok
    /\ include_port
    /\ rec.port = <<"1", "1">>
    /\ ruleOut.rule.devicePorts = <<(<<"1", "1">>)>>
    /\ rec.interface_types = <<(<<8, 6, 80>>)>>

\* The identity hash as the specification words it: name, vendorId, productId
\* and serialNumber hashed in this order, the port left out.
HashWithoutPort(r) ==
    [hex |-> [blake2b |-> r.name \o r.vendor_id \o r.product_id \o r.serial_number]]

(***************************************************************************)
(* C13.  Every rule returned by getDeviceRule, for either value of         *)
(* include_port, has id, target, vendorId, productId, serialNumber and     *)
(* deviceName equal to the record's, interfaceTypes equal to the record's  *)
(* full ordered sequence with the Equals set operator, and deviceHash      *)
(* equal to the device hash computed with the port excluded.               *)
(***************************************************************************)
C13_RuleCopiesRecord ==
    [][(last'.op = "getDeviceRule" /\ ruleOut'.ok) =>
          LET rule == ruleOut'.rule
          IN  /\ rule.id = rec.id
              /\ rule.target = rec.target
              /\ rule.vendorId = rec.vendor_id
              /\ rule.productId = rec.product_id
              /\ rule.serialNumber = rec.serial_number
              /\ rule.deviceName = rec.name
              /\ rule.interfaceTypes = rec.interface_types
              /\ rule.interfaceTypesSetOperator = "Equals"
              /\ rule.deviceHash = HashWithoutPort(rec)
              /\ rule.deviceHash = getDeviceHash(rec, FALSE).value]_vars

\* A rule without port taken from a record that holds two interface types, a
\* name set by the caller, a serial number and a port.
C13_Witness ==
    /\ last.op = "getDeviceRule"
    /\ ruleOut.ok
    /\ ~include_port
    /\ Len(rec.interface_types) = 2
    /\ rec.interface_types[1] # rec.interface_types[2]
    /\ ruleOut.rule.interfaceTypes = rec.interface_types
    /\ rec.name = <<"b">>
    /\ rec.serial_number # <<>>
    /\ rec.port # <<>>
    /\ ruleOut.rule.deviceHash = HashWithoutPort(rec)

\* The statement the rule thread executes next, once inside getDeviceRule.
InsideGetDeviceRule ==
    RuleFields \/ RulePort \/ RuleTypes \/ RuleName \/ RuleHash \/ RuleReturn

(***************************************************************************)
(* C14.  getDeviceRule holds the record's guard at every statement that    *)
(* reads a field and has released it after every exit, the exception of    *)
(* getDeviceHash included; once it holds the guard its next statement can  *)
(* always run (the hash computation does not wait for the guard), and      *)
(* after the call the guard is not held by the calling thread.             *)
(***************************************************************************)
C14_GuardHeldThenReleased ==
    /\ rulePc # "idle" <=> mutex = "rule"
    /\ rulePc # "idle" => ENABLED InsideGetDeviceRule
    /\ ruleOut # NoRule => (rulePc = "idle" /\ mutex # "rule")

\* getDeviceRule has ended with the exception of getDeviceHash, on a record
\* whose vendor id the other thread emptied during the call, and the guard is
\* free.
C14_Witness ==
    /\ last.op = "getDeviceRule"
    /\ ~ruleOut.ok
    /\ ruleOut.err = "Vendor ID and/or Product ID empty"
    /\ rulePc = "idle"
    /\ mutex = "free"

(***************************************************************************)
(* C15.  After any sequence of descriptor events in which a device event   *)
(* was accepted, interfaceTypes is exactly the ordered list of the         *)
(* interface types of the interface events accepted since the last         *)
(* accepted device event, one entry per event; a record created empty      *)
(* holds no interface type before that, and no interface event is accepted *)
(* before a device event was.  In particular device, configuration,        *)
(* interface, endpoint fed in this order to a parser that has parsed       *)
(* nothing are all accepted and leave exactly one entry.                   *)
(***************************************************************************)
C15_TypesSinceLastDevice ==
    /\ LastDevice > 0 => rec.interface_types = AcceptedTypes(EventsAfter(LastDevice))
    /\ LastDevice = 0 =>
          /\ AcceptedTypes(events) = <<>>
          /\ origin.ctor = "empty" => rec.interface_types = <<>>
    /\ \A i \in DOMAIN events :
          (/\ i + 3 \in DOMAIN events
           /\ events[i].kind = "device" /\ events[i].parser = USBDescriptorParser
           /\ events[i + 1].kind = "configuration"
           /\ events[i + 2].kind = "interface"
           /\ events[i + 3].kind = "endpoint")
              => /\ \A k \in i..(i + 3) : events[k].ok
                 /\ events[i + 3].types = <<events[i + 2].itype>>

\* device, configuration, two different interfaces and an endpoint, all
\* accepted by a record that was built from a rule listing another interface
\* sequence: both types are held, in the order of arrival.
C15_Witness ==
    /\ Len(events) = 5
    /\ IsAccepted(events[1], "device")
    /\ IsAccepted(events[2], "configuration")
    /\ IsAccepted(events[3], "interface")
    /\ IsAccepted(events[4], "interface")
    /\ IsAccepted(events[5], "endpoint")
    /\ events[3].itype # events[4].itype
    /\ rec.interface_types = <<events[3].itype, events[4].itype>>
    /\ origin.ctor = "rule"

\* The parser oracle after event i: the one the next event met, or the
\* current one.
OracleAfter(i) == IF i < Len(events) THEN events[i + 1].parser ELSE have

(***************************************************************************)
(* C16.  After an accepted configuration event the parser oracle reports   *)
(* interface and endpoint descriptors as not seen, so an endpoint event    *)
(* that follows a configuration event with no accepted interface event in  *)
(* between is rejected with the missing-parent error, even when an         *)
(* interface was seen under an earlier configuration.                      *)
(***************************************************************************)
C16_ConfigurationResetsOracle ==
    /\ \A i \in DOMAIN events :
          IsAccepted(events[i], "configuration") =>
              /\ ~haveDescriptor(OracleAfter(i), USB_DESCRIPTOR_TYPE_INTERFACE)
              /\ ~haveDescriptor(OracleAfter(i), USB_DESCRIPTOR_TYPE_ENDPOINT)
    /\ \A i, j \in DOMAIN events :
          (/\ i < j
           /\ IsAccepted(events[i], "configuration")
           /\ events[j].kind = "endpoint"
           /\ \A k \in (i + 1)..(j - 1) : ~IsAccepted(events[k], "interface"))
              => /\ ~events[j].ok
                 /\ events[j].err = "missing parent interface descriptor while loading endpoint"

\* device, configuration, interface, configuration, endpoint: the endpoint is
\* rejected although the oracle had seen an interface before the second
\* configuration.
C16_Witness ==
    \E i \in DOMAIN events :
        /\ i + 4 \in DOMAIN events
        /\ IsAccepted(events[i], "device")
        /\ IsAccepted(events[i + 1], "configuration")
        /\ IsAccepted(events[i + 2], "interface")
        /\ IsAccepted(events[i + 3], "configuration")
        /\ haveDescriptor(events[i + 3].parser, USB_DESCRIPTOR_TYPE_INTERFACE)
        /\ IsRejected(events[i + 4], "endpoint")

\* This step fed a descriptor event; its entry is the last of the history.
EventFed == Len(events') = Len(events) + 1 /\ events'[Len(events')].kind # "parser"

FedEvent == events'[Len(events')]

(***************************************************************************)
(* C17.  An accepted endpoint event and an accepted configuration event    *)
(* leave every field of the record unchanged (id, target, name, vendorId,  *)
(* productId, serialNumber, port, interfaceTypes, numConfigurations); an   *)
(* accepted interface event changes only interfaceTypes, and an accepted   *)
(* device event changes only numConfigurations and interfaceTypes.         *)
(***************************************************************************)
C17_AcceptedEventFrame ==
    [][(EventFed /\ FedEvent.ok) =>
          /\ FedEvent.kind \in {"endpoint", "configuration"} => rec' = rec
          /\ FedEvent.kind = "interface" =>
                rec' = [rec EXCEPT !.interface_types = rec'.interface_types]
          /\ FedEvent.kind = "device" =>
                rec' = [rec EXCEPT !.interface_types = rec'.interface_types,
                                   !.num_configurations = rec'.num_configurations]]_vars

\* An endpoint event has just been accepted by a record that holds a name, a
\* port, a target, an interface type and a configuration count.
C17_Witness ==
    /\ last.op = "endpoint" /\ last.ok
    /\ events[Len(events)].kind = "endpoint"
    /\ rec.name # <<>> /\ rec.port # <<>> /\ rec.serial_number # <<>>
    /\ rec.target = "Allow" /\ rec.id # DefaultID
    /\ rec.interface_types # <<>>
    /\ rec.num_configurations = 2

(***************************************************************************)
(* C18.  A rejected descriptor event changes nothing: when                 *)
(* loadDeviceDescriptor, loadConfigurationDescriptor,                      *)
(* loadInterfaceDescriptor or loadEndpointDescriptor fails, every field of *)
(* the record (interfaceTypes and numConfigurations included) and the      *)
(* parser oracle are the same as before the call.                          *)
(***************************************************************************)
C18_RejectedEventChangesNothing ==
    [][(EventFed /\ ~FedEvent.ok) => (rec' = rec /\ have' = have)]_vars

\* A second device event has just been rejected; the record still holds the
\* interface type and the oracle still reports the interface.
C18_Witness ==
    /\ last.op = "device" /\ ~last.ok
    /\ IsRejected(events[Len(events)], "device")
    /\ rec.interface_types # <<>>
    /\ rec.num_configurations = 2
    /\ haveDescriptor(have, USB_DESCRIPTOR_TYPE_INTERFACE)

(***************************************************************************)
(* C19.  As claimed: round trip through a rule.  For every record with     *)
(* non-empty vendorId and productId, the record constructed from the rule  *)
(* that getDeviceRule(include_port = true) has just returned equals the    *)
(* original on all fields: id, target, name, vendorId, productId,          *)
(* serialNumber, port, interfaceTypes and numConfigurations.               *)
(***************************************************************************)
C19_RoundTripThroughRule ==
    [][(/\ last.op = "getDeviceRule" /\ last.ok /\ include_port
        /\ ~IdentityIncomplete(rec)
        /\ last'.op = "DevicePrivate")
          => rec' = rec]_vars

(***************************************************************************)
(* C20.  As claimed: every rule getDeviceRule produces can be used to      *)
(* construct a record; constructing a record from a rule never reads the   *)
(* first entry of an empty port set, rules returned by                     *)
(* getDeviceRule(include_port = false) included.                           *)
(***************************************************************************)
C20_NeverReadsEmptyPortSet ==
    ~origin.ub

====
